---- MODULE Spec2Model ----
(***************************************************************************)
(* Model of src/items/new_items.rs: the four plot items HRay, LinkedYHRay, *)
(* LinkedYText and LinkedYPolygon, their builder setters and their         *)
(* PlotItem implementations.                                               *)
(*                                                                         *)
(* Numbers.  Domain values (f64) are integers.  Screen coordinates (f32)   *)
(* are fixed-point integers counting 1/Sub of a pixel, at one pixel per    *)
(* point, so Px(n) is n whole pixels and a coordinate that is no multiple  *)
(* of Sub lies between pixels.  Stroke widths and corner radii count       *)
(* halves of a point (2 is the width 1.0, 1 is the width 0.5).             *)
(* A Color32 is its premultiplied <<r, g, b, a>>.                          *)
(***************************************************************************)
EXTENDS Integers, Sequences, FiniteSets

VARIABLES
    item,      \* the plot item: a record tagged by kind, holding the struct's fields
    given,     \* the arguments the item's constructor was called with
    view,      \* the frame's inputs to shapes: [transform, ui]
    out,       \* the frame's shape list (shapes: &mut Vec<Shape>)
    rendered,  \* the host has called shapes on the item in this frame
    panicked   \* an operation has panicked

vars == <<item, given, view, out, rendered, panicked>>

----------------------------------------------------------------------------
(* Bounds of the model *)

\* sub-pixel resolution of screen coordinates: units per pixel
Sub == 4
\* shapes of other plot items already in the list when the item is rendered
MaxForeign == 1

Px(n) == n * Sub

----------------------------------------------------------------------------
(* Values of the host toolkit *)

pos2(x, y) == <<x, y>>

TRANSPARENT == <<0, 0, 0, 0>>
RED == <<255, 0, 0, 255>>
GRAY == <<140, 140, 140, 255>>
WHITE == <<255, 255, 255, 255>>

Stroke_new(width, color) == [width |-> width, color |-> color]
Stroke_NONE == Stroke_new(0, TRANSPARENT)

\* crate::items::DEFAULT_FILL_ALPHA, in percent (0.05)
DEFAULT_FILL_ALPHA == 5

\* Color32::linear_multiply(factor): every premultiplied component is scaled
\* by the factor (given in percent) and rounded to the nearest integer
linear_multiply(color, percent) ==
    [i \in 1..4 |-> (color[i] * percent + 50) \div 100]

\* f64 values of a PlotBounds axis: finite, or one of the two infinities
Fin(v) == <<"fin", v>>
PosInf == <<"inf", 1>>
NegInf == <<"inf", -1>>

\* PlotBounds::NOTHING: the box that contributes to neither axis
PlotBounds_NOTHING == [min |-> <<PosInf, PosInf>>, max |-> <<NegInf, NegInf>>]

\* f32::round on a coordinate, to whole pixels, halves away from zero
RoundToPixel(v) ==
    IF v >= 0 THEN ((2 * v + Sub) \div (2 * Sub)) * Sub
              ELSE -(((2 * (-v) + Sub) \div (2 * Sub)) * Sub)

\* Painter::round_pos_to_pixels: each coordinate rounded on its own
round_pos_to_pixels(p) == pos2(RoundToPixel(p[1]), RoundToPixel(p[2]))

\* PlotTransform: the visible bounds mapped affinely onto the frame; screen y
\* grows downwards
position_from_point_x(transform, x) ==
    transform.left + (x - transform.bounds.min[1]) * transform.sx

position_from_point_y(transform, y) ==
    transform.bottom - (y - transform.bounds.min[2]) * transform.sy

position_from_point(transform, p) ==
    pos2(position_from_point_x(transform, p[1]), position_from_point_y(transform, p[2]))

\* Align2::anchor_rect: the rectangle of rect's size that has rect.min at the
\* place the alignment names (Min: its min edge, Center: its centre, Max: its
\* max edge), per axis
AlignMin(align, at, size) ==
    CASE align = "Min" -> at
      [] align = "Center" -> at - size \div 2
      [] align = "Max" -> at - size

Rect_from_min_size(min, size) ==
    [min |-> min, max |-> pos2(min[1] + size[1], min[2] + size[2])]

anchor_rect(anchor, rect) ==
    LET size == pos2(rect.max[1] - rect.min[1], rect.max[2] - rect.min[2])
    IN  Rect_from_min_size(
            pos2(AlignMin(anchor[1], rect.min[1], size[1]),
                 AlignMin(anchor[2], rect.min[2], size[2])),
            size)

Rect_expand(rect, amnt) ==
    [min |-> pos2(rect.min[1] - amnt, rect.min[2] - amnt),
     max |-> pos2(rect.max[1] + amnt, rect.max[2] + amnt)]

\* LineStyle::style_line: the routine's output for one path, kept as one entry
\* that records what the routine was given
style_line(style, points, stroke, highlight, shapes) ==
    Append(shapes, [shape |-> "styled_line", points |-> points, stroke |-> stroke,
                    style |-> style, highlight |-> highlight])

Shape_convex_polygon(points, fill, stroke) ==
    [shape |-> "convex_polygon", points |-> points, fill |-> fill, stroke |-> stroke]

TextShape_new(pos, galley, color) ==
    [shape |-> "text", pos |-> pos, galley |-> galley, color |-> color]

Shape_rect_stroke(rect, rounding, stroke) ==
    [shape |-> "rect_stroke", rect |-> rect, rounding |-> rounding, stroke |-> stroke]

\* WidgetText::into_galley: the laid-out text, measured in the ui's small font
into_galley(text, ui) == [text |-> text, size |-> ui.small_text_size]

----------------------------------------------------------------------------
(* HRay *)

HRay_new(point) ==
    [kind |-> "HRay", point |-> point, stroke |-> Stroke_new(2, TRANSPARENT),
     name |-> "", highlight |-> FALSE, style |-> "Solid"]

HRay_highlight(self, highlight) == [self EXCEPT !.highlight = highlight]
HRay_stroke(self, stroke) == [self EXCEPT !.stroke = stroke]
HRay_width(self, width) == [self EXCEPT !.stroke.width = width]
HRay_color(self, color) == [self EXCEPT !.stroke.color = color]
HRay_style(self, style) == [self EXCEPT !.style = style]
HRay_name(self, name) == [self EXCEPT !.name = name]

\* mutant: the far point is the view's corner, not the point's row
HRay_shapes_corner(self, ui, transform, shapes) ==
    LET points == <<
            round_pos_to_pixels(
                position_from_point(transform, pos2(self.point[1], self.point[2]))),
            round_pos_to_pixels(
                position_from_point(transform,
                                    pos2(transform.bounds.max[1],
                                         transform.bounds.max[2])))>>
    IN  style_line(self.style, points, self.stroke, self.highlight, shapes)

HRay_shapes(self, ui, transform, shapes) ==
    LET points == <<
            round_pos_to_pixels(
                position_from_point(transform, pos2(self.point[1], self.point[2]))),
            round_pos_to_pixels(
                position_from_point(transform,
                                    pos2(transform.bounds.max[1], self.point[2])))>>
    IN  style_line(self.style, points, self.stroke, self.highlight, shapes)

HRay_initialize(self, x_range) == self
HRay_PlotItem_name(self) == self.name
HRay_PlotItem_color(self) == self.stroke.color
\* mutant: highlight() toggles the flag
HRay_PlotItem_highlight_toggle(self) == [self EXCEPT !.highlight = ~self.highlight]
HRay_PlotItem_highlight(self) == [self EXCEPT !.highlight = TRUE]
HRay_highlighted(self) == self.highlight
HRay_geometry(self) == "None"

HRay_bounds(self) ==
    [min |-> <<Fin(self.point[1]), Fin(self.point[2])>>,
     max |-> <<PlotBounds_NOTHING.max[1], Fin(self.point[2])>>]

----------------------------------------------------------------------------
(* LinkedYHRay *)

LinkedYHRay_new(y, offset) ==
    [kind |-> "LinkedYHRay", y |-> y, offset |-> offset,
     stroke |-> Stroke_new(2, TRANSPARENT), name |-> "", highlight |-> FALSE,
     style |-> "Solid"]

LinkedYHRay_highlight(self, highlight) == [self EXCEPT !.highlight = highlight]
LinkedYHRay_stroke(self, stroke) == [self EXCEPT !.stroke = stroke]
LinkedYHRay_width(self, width) == [self EXCEPT !.stroke.width = width]
LinkedYHRay_color(self, color) == [self EXCEPT !.stroke.color = color]
LinkedYHRay_style(self, style) == [self EXCEPT !.style = style]
LinkedYHRay_name(self, name) == [self EXCEPT !.name = name]

\* mutant: the offset is added to the right edge instead of subtracted
LinkedYHRay_shapes_plus_offset(self, ui, transform, shapes) ==
    LET points == <<
            round_pos_to_pixels(
                pos2(position_from_point_x(transform, transform.bounds.max[1])
                         + self.offset,
                     position_from_point_y(transform, self.y))),
            round_pos_to_pixels(
                position_from_point(transform,
                                    pos2(transform.bounds.max[1], self.y)))>>
    IN  style_line(self.style, points, self.stroke, self.highlight, shapes)

LinkedYHRay_shapes(self, ui, transform, shapes) ==
    LET points == <<
            round_pos_to_pixels(
                pos2(position_from_point_x(transform, transform.bounds.max[1])
                         - self.offset,
                     position_from_point_y(transform, self.y))),
            round_pos_to_pixels(
                position_from_point(transform,
                                    pos2(transform.bounds.max[1], self.y)))>>
    IN  style_line(self.style, points, self.stroke, self.highlight, shapes)

LinkedYHRay_initialize(self, x_range) == self
LinkedYHRay_PlotItem_name(self) == self.name
LinkedYHRay_PlotItem_color(self) == self.stroke.color
LinkedYHRay_PlotItem_highlight(self) == [self EXCEPT !.highlight = TRUE]
LinkedYHRay_highlighted(self) == self.highlight
LinkedYHRay_geometry(self) == "None"

LinkedYHRay_bounds(self) ==
    [min |-> <<PlotBounds_NOTHING.min[1], Fin(self.y)>>,
     max |-> <<PlotBounds_NOTHING.max[1], Fin(self.y)>>]

----------------------------------------------------------------------------
(* LinkedYText *)

CENTER_CENTER == <<"Center", "Center">>

LinkedYText_new(y, offset, text) ==
    [kind |-> "LinkedYText", text |-> text, y |-> y, offset |-> offset,
     name |-> "", highlight |-> FALSE, color |-> TRANSPARENT,
     anchor |-> CENTER_CENTER]

LinkedYText_highlight(self, highlight) == [self EXCEPT !.highlight = highlight]
LinkedYText_color(self, color) == [self EXCEPT !.color = color]
LinkedYText_anchor(self, anchor) == [self EXCEPT !.anchor = anchor]
LinkedYText_name(self, name) == [self EXCEPT !.name = name]

\* mutant: the text rectangle is not aligned on the anchor
LinkedYText_shapes_unanchored(self, ui, transform, shapes) ==
    LET color == IF self.color = TRANSPARENT THEN ui.text_color ELSE self.color
        galley == into_galley(self.text, ui)
        pos == pos2(position_from_point_x(transform, transform.bounds.max[1])
                        - self.offset,
                    position_from_point_y(transform, self.y))
        rect == Rect_from_min_size(pos, galley.size)
        drawn == Append(shapes, TextShape_new(rect.min, galley, color))
    IN  IF self.highlight
        THEN Append(drawn, Shape_rect_stroke(Rect_expand(rect, Px(2)), 2,
                                             Stroke_new(1, color)))
        ELSE drawn

\* mutant: the highlight outline is drawn in the configured colour
LinkedYText_shapes_outline_configured(self, ui, transform, shapes) ==
    LET color == IF self.color = TRANSPARENT THEN ui.text_color ELSE self.color
        galley == into_galley(self.text, ui)
        pos == pos2(position_from_point_x(transform, transform.bounds.max[1])
                        - self.offset,
                    position_from_point_y(transform, self.y))
        rect == anchor_rect(self.anchor, Rect_from_min_size(pos, galley.size))
        drawn == Append(shapes, TextShape_new(rect.min, galley, color))
    IN  IF self.highlight
        THEN Append(drawn, Shape_rect_stroke(Rect_expand(rect, Px(2)), 2,
                                             Stroke_new(1, self.color)))
        ELSE drawn

LinkedYText_shapes(self, ui, transform, shapes) ==
    LET color == IF self.color = TRANSPARENT THEN ui.text_color ELSE self.color
        galley == into_galley(self.text, ui)
        pos == pos2(position_from_point_x(transform, transform.bounds.max[1])
                        - self.offset,
                    position_from_point_y(transform, self.y))
        rect == anchor_rect(self.anchor, Rect_from_min_size(pos, galley.size))
        drawn == Append(shapes, TextShape_new(rect.min, galley, color))
    IN  IF self.highlight
        THEN Append(drawn, Shape_rect_stroke(Rect_expand(rect, Px(2)), 2,
                                             Stroke_new(1, color)))
        ELSE drawn

\* mutant: initialize resets the highlight flag
LinkedYText_initialize_resets(self, x_range) == [self EXCEPT !.highlight = FALSE]
LinkedYText_initialize(self, x_range) == self
LinkedYText_PlotItem_name(self) == self.name
LinkedYText_PlotItem_color(self) == self.color
LinkedYText_PlotItem_highlight(self) == [self EXCEPT !.highlight = TRUE]
LinkedYText_highlighted(self) == self.highlight
LinkedYText_geometry(self) == "None"

LinkedYText_bounds(self) ==
    [min |-> <<PlotBounds_NOTHING.min[1], Fin(self.y)>>,
     max |-> <<PlotBounds_NOTHING.max[1], Fin(self.y)>>]

----------------------------------------------------------------------------
(* LinkedYPolygon *)

None == <<>>
Some(v) == <<v>>
unwrap_or(opt, default) == IF opt = None THEN default ELSE opt[1]

LinkedYPolygon_new(series, y) ==
    [kind |-> "LinkedYPolygon", series |-> series, y |-> y,
     stroke |-> Stroke_new(2, TRANSPARENT), name |-> "", highlight |-> FALSE,
     fill_color |-> None, style |-> "Solid"]

LinkedYPolygon_highlight(self, highlight) == [self EXCEPT !.highlight = highlight]
\* mutant: setting the stroke drops an explicit fill colour
LinkedYPolygon_stroke_resets_fill(self, stroke) ==
    [self EXCEPT !.stroke = stroke, !.fill_color = None]
LinkedYPolygon_stroke(self, stroke) == [self EXCEPT !.stroke = stroke]
LinkedYPolygon_width(self, width) == [self EXCEPT !.stroke.width = width]
LinkedYPolygon_fill_color(self, color) == [self EXCEPT !.fill_color = Some(color)]
LinkedYPolygon_style(self, style) == [self EXCEPT !.style = style]
LinkedYPolygon_name(self, name) == [self EXCEPT !.name = name]

\* mutant: the outline is not closed back to the first point
LinkedYPolygon_shapes_open(self, ui, transform, shapes) ==
    LET x == position_from_point_x(transform, transform.bounds.max[1])
        y == position_from_point_y(transform, self.y)
        values_tf == [i \in 1..Len(self.series) |->
                         pos2(x + self.series[i][1], y + self.series[i][2])]
        fill_color == unwrap_or(self.fill_color,
                                linear_multiply(self.stroke.color, DEFAULT_FILL_ALPHA))
        filled == Append(shapes, Shape_convex_polygon(values_tf, fill_color, Stroke_NONE))
    IN  IF values_tf = <<>>
        THEN [shapes |-> filled, panic |-> TRUE]
        ELSE [shapes |-> style_line(self.style, values_tf,
                                    self.stroke, self.highlight, filled),
              panic |-> FALSE]

\* The result is the shape list as the call leaves it and whether the call
\* panicked: values_tf.first().unwrap() panics on an empty series, after the
\* fill polygon was pushed.
LinkedYPolygon_shapes(self, ui, transform, shapes) ==
    LET x == position_from_point_x(transform, transform.bounds.max[1])
        y == position_from_point_y(transform, self.y)
        values_tf == [i \in 1..Len(self.series) |->
                         pos2(x + self.series[i][1], y + self.series[i][2])]
        fill_color == unwrap_or(self.fill_color,
                                linear_multiply(self.stroke.color, DEFAULT_FILL_ALPHA))
        filled == Append(shapes, Shape_convex_polygon(values_tf, fill_color, Stroke_NONE))
    IN  IF values_tf = <<>>
        THEN [shapes |-> filled, panic |-> TRUE]
        ELSE [shapes |-> style_line(self.style, Append(values_tf, values_tf[1]),
                                    self.stroke, self.highlight, filled),
              panic |-> FALSE]

LinkedYPolygon_initialize(self, x_range) == self
LinkedYPolygon_PlotItem_name(self) == self.name
LinkedYPolygon_PlotItem_color(self) == self.stroke.color
LinkedYPolygon_PlotItem_highlight(self) == [self EXCEPT !.highlight = TRUE]
LinkedYPolygon_highlighted(self) == self.highlight
LinkedYPolygon_geometry(self) == "None"

\* mutant: only the lower y bound is set
LinkedYPolygon_bounds_min_only(self) ==
    [min |-> <<PlotBounds_NOTHING.min[1], Fin(self.y)>>,
     max |-> <<PlotBounds_NOTHING.max[1], PlotBounds_NOTHING.max[2]>>]

LinkedYPolygon_bounds(self) ==
    [min |-> <<PlotBounds_NOTHING.min[1], Fin(self.y)>>,
     max |-> <<PlotBounds_NOTHING.max[1], Fin(self.y)>>]

----------------------------------------------------------------------------
(* Inputs *)

Colors == {TRANSPARENT, RED}
Widths == {2, 4}
Strokes == {Stroke_new(w, c) : w \in Widths, c \in Colors}
Styles == {"Solid", "Dashed"}
Names == {"ray"}
Aligns == {"Min", "Center", "Max"}
Anchors == Aligns \X Aligns
Points == {<<2, 3>>, <<7, 5>>}
Ys == {3, 5}
Offsets == {3, Px(2)}
Texts == {"label"}
XRanges == {<<0, 10>>, <<-2, 6>>}

Triangle == <<pos2(Px(0), Px(0)), pos2(Px(10), Px(0)), pos2(Px(5), -Px(10))>>
SeriesInputs == {<<>>, <<pos2(1, -2)>>, <<pos2(-3, 0), pos2(Px(1) + 1, 2)>>, Triangle}

\* the scenario view: right edge at pixel x = 200, y = 5 at pixel y = 80
ViewA ==
    [transform |-> [bounds |-> [min |-> <<0, 0>>, max |-> <<10, 10>>],
                    left |-> Px(0), bottom |-> Px(160), sx |-> Px(20), sy |-> Px(16)],
     ui |-> [text_color |-> GRAY, small_text_size |-> pos2(2 * 9, 2 * 5)]]

\* a view whose right edge and rows lie between pixels
ViewB ==
    [transform |-> [bounds |-> [min |-> <<-2, 1>>, max |-> <<6, 9>>],
                    left |-> 5, bottom |-> Px(90) + 1, sx |-> 7, sy |-> 6],
     ui |-> [text_color |-> WHITE, small_text_size |-> pos2(2 * 7, 2 * 3)]]

Views == {ViewA, ViewB}

\* what other plot items of the frame pushed before this item is rendered
ForeignShape == [shape |-> "other"]
Foreign == UNION {[1..n -> {ForeignShape}] : n \in 0..MaxForeign}

----------------------------------------------------------------------------
(* State machine *)

Init ==
    /\ \/ \E point \in Points :
            /\ item = HRay_new(point)
            /\ given = [point |-> point]
       \/ \E y \in Ys, offset \in Offsets :
            /\ item = LinkedYHRay_new(y, offset)
            /\ given = [y |-> y, offset |-> offset]
       \/ \E y \in Ys, offset \in Offsets, text \in Texts :
            /\ item = LinkedYText_new(y, offset, text)
            /\ given = [y |-> y, offset |-> offset, text |-> text]
       \/ \E series \in SeriesInputs, y \in Ys :
            /\ item = LinkedYPolygon_new(series, y)
            /\ given = [series |-> series, y |-> y]
    /\ view \in Views
    /\ out \in Foreign
    /\ rendered = FALSE
    /\ panicked = FALSE

\* the host starts a redraw: a new transform and ui, a new shape list
NewFrame ==
    /\ ~panicked
    /\ view' \in Views
    /\ out' \in Foreign
    /\ rendered' = FALSE
    /\ UNCHANGED <<item, given, panicked>>

Linked == {"LinkedYHRay", "LinkedYText", "LinkedYPolygon"}

builder_highlight ==
    /\ ~panicked
    /\ \E highlight \in BOOLEAN :
         item' = CASE item.kind = "HRay" -> HRay_highlight(item, highlight)
                   [] item.kind = "LinkedYHRay" -> LinkedYHRay_highlight(item, highlight)
                   [] item.kind = "LinkedYText" -> LinkedYText_highlight(item, highlight)
                   [] item.kind = "LinkedYPolygon" -> LinkedYPolygon_highlight(item, highlight)
    /\ UNCHANGED <<given, view, out, rendered, panicked>>

builder_stroke ==
    /\ ~panicked
    /\ item.kind \in {"HRay", "LinkedYHRay", "LinkedYPolygon"}
    /\ \E stroke \in Strokes :
         item' = CASE item.kind = "HRay" -> HRay_stroke(item, stroke)
                   [] item.kind = "LinkedYHRay" -> LinkedYHRay_stroke(item, stroke)
                   [] item.kind = "LinkedYPolygon" -> LinkedYPolygon_stroke(item, stroke)
    /\ UNCHANGED <<given, view, out, rendered, panicked>>

builder_width ==
    /\ ~panicked
    /\ item.kind \in {"HRay", "LinkedYHRay", "LinkedYPolygon"}
    /\ \E width \in Widths :
         item' = CASE item.kind = "HRay" -> HRay_width(item, width)
                   [] item.kind = "LinkedYHRay" -> LinkedYHRay_width(item, width)
                   [] item.kind = "LinkedYPolygon" -> LinkedYPolygon_width(item, width)
    /\ UNCHANGED <<given, view, out, rendered, panicked>>

builder_color ==
    /\ ~panicked
    /\ item.kind \in {"HRay", "LinkedYHRay", "LinkedYText"}
    /\ \E color \in Colors :
         item' = CASE item.kind = "HRay" -> HRay_color(item, color)
                   [] item.kind = "LinkedYHRay" -> LinkedYHRay_color(item, color)
                   [] item.kind = "LinkedYText" -> LinkedYText_color(item, color)
    /\ UNCHANGED <<given, view, out, rendered, panicked>>

builder_style ==
    /\ ~panicked
    /\ item.kind \in {"HRay", "LinkedYHRay", "LinkedYPolygon"}
    /\ \E style \in Styles :
         item' = CASE item.kind = "HRay" -> HRay_style(item, style)
                   [] item.kind = "LinkedYHRay" -> LinkedYHRay_style(item, style)
                   [] item.kind = "LinkedYPolygon" -> LinkedYPolygon_style(item, style)
    /\ UNCHANGED <<given, view, out, rendered, panicked>>

builder_name ==
    /\ ~panicked
    /\ \E name \in Names :
         item' = CASE item.kind = "HRay" -> HRay_name(item, name)
                   [] item.kind = "LinkedYHRay" -> LinkedYHRay_name(item, name)
                   [] item.kind = "LinkedYText" -> LinkedYText_name(item, name)
                   [] item.kind = "LinkedYPolygon" -> LinkedYPolygon_name(item, name)
    /\ UNCHANGED <<given, view, out, rendered, panicked>>

builder_anchor ==
    /\ ~panicked
    /\ item.kind = "LinkedYText"
    /\ \E anchor \in Anchors : item' = LinkedYText_anchor(item, anchor)
    /\ UNCHANGED <<given, view, out, rendered, panicked>>

builder_fill_color ==
    /\ ~panicked
    /\ item.kind = "LinkedYPolygon"
    /\ \E color \in Colors : item' = LinkedYPolygon_fill_color(item, color)
    /\ UNCHANGED <<given, view, out, rendered, panicked>>

\* PlotItem::initialize(&mut self, x_range)
initialize ==
    /\ ~panicked
    /\ \E x_range \in XRanges :
         item' = CASE item.kind = "HRay" -> HRay_initialize(item, x_range)
                   [] item.kind = "LinkedYHRay" -> LinkedYHRay_initialize(item, x_range)
                   [] item.kind = "LinkedYText" -> LinkedYText_initialize(item, x_range)
                   [] item.kind = "LinkedYPolygon" -> LinkedYPolygon_initialize(item, x_range)
    /\ UNCHANGED <<given, view, out, rendered, panicked>>

\* PlotItem::highlight(&mut self)
highlight ==
    /\ ~panicked
    /\ item' = CASE item.kind = "HRay" -> HRay_PlotItem_highlight(item)
                 [] item.kind = "LinkedYHRay" -> LinkedYHRay_PlotItem_highlight(item)
                 [] item.kind = "LinkedYText" -> LinkedYText_PlotItem_highlight(item)
                 [] item.kind = "LinkedYPolygon" -> LinkedYPolygon_PlotItem_highlight(item)
    /\ UNCHANGED <<given, view, out, rendered, panicked>>

\* PlotItem::shapes(&self, ui, transform, shapes), called by the host once in a
\* frame
shapes ==
    /\ ~panicked
    /\ ~rendered
    /\ rendered' = TRUE
    /\ \/ /\ item.kind = "HRay"
          /\ out' = HRay_shapes(item, view.ui, view.transform, out)
          /\ UNCHANGED panicked
       \/ /\ item.kind = "LinkedYHRay"
          /\ out' = LinkedYHRay_shapes(item, view.ui, view.transform, out)
          /\ UNCHANGED panicked
       \/ /\ item.kind = "LinkedYText"
          /\ out' = LinkedYText_shapes(item, view.ui, view.transform, out)
          /\ UNCHANGED panicked
       \/ /\ item.kind = "LinkedYPolygon"
          /\ LET r == LinkedYPolygon_shapes(item, view.ui, view.transform, out)
             IN  /\ out' = r.shapes
                 /\ panicked' = r.panic
    /\ UNCHANGED <<item, given, view>>

\* The read accessors take &self and return a value: dispatch over the four
\* implementations.
PlotItem_name(self) ==
    CASE self.kind = "HRay" -> HRay_PlotItem_name(self)
      [] self.kind = "LinkedYHRay" -> LinkedYHRay_PlotItem_name(self)
      [] self.kind = "LinkedYText" -> LinkedYText_PlotItem_name(self)
      [] self.kind = "LinkedYPolygon" -> LinkedYPolygon_PlotItem_name(self)

PlotItem_color(self) ==
    CASE self.kind = "HRay" -> HRay_PlotItem_color(self)
      [] self.kind = "LinkedYHRay" -> LinkedYHRay_PlotItem_color(self)
      [] self.kind = "LinkedYText" -> LinkedYText_PlotItem_color(self)
      [] self.kind = "LinkedYPolygon" -> LinkedYPolygon_PlotItem_color(self)

PlotItem_highlighted(self) ==
    CASE self.kind = "HRay" -> HRay_highlighted(self)
      [] self.kind = "LinkedYHRay" -> LinkedYHRay_highlighted(self)
      [] self.kind = "LinkedYText" -> LinkedYText_highlighted(self)
      [] self.kind = "LinkedYPolygon" -> LinkedYPolygon_highlighted(self)

PlotItem_geometry(self) ==
    CASE self.kind = "HRay" -> HRay_geometry(self)
      [] self.kind = "LinkedYHRay" -> LinkedYHRay_geometry(self)
      [] self.kind = "LinkedYText" -> LinkedYText_geometry(self)
      [] self.kind = "LinkedYPolygon" -> LinkedYPolygon_geometry(self)

PlotItem_bounds(self) ==
    CASE self.kind = "HRay" -> HRay_bounds(self)
      [] self.kind = "LinkedYHRay" -> LinkedYHRay_bounds(self)
      [] self.kind = "LinkedYText" -> LinkedYText_bounds(self)
      [] self.kind = "LinkedYPolygon" -> LinkedYPolygon_bounds(self)

\* a call of one of the read accessors: the value goes to the caller, the
\* state stays
accessors ==
    /\ ~panicked
    /\ \E call \in {<<"name", PlotItem_name(item)>>,
                    <<"color", PlotItem_color(item)>>,
                    <<"highlighted", PlotItem_highlighted(item)>>,
                    <<"geometry", PlotItem_geometry(item)>>,
                    <<"bounds", PlotItem_bounds(item)>>} : call[1] # ""
    /\ UNCHANGED vars

Next ==
    \/ NewFrame
    \/ builder_highlight
    \/ builder_stroke
    \/ builder_width
    \/ builder_color
    \/ builder_style
    \/ builder_name
    \/ builder_anchor
    \/ builder_fill_color
    \/ initialize
    \/ highlight
    \/ shapes
    \/ accessors

Spec == Init /\ [][Next]_vars

----------------------------------------------------------------------------
(* Claims *)

Abs(n) == IF n >= 0 THEN n ELSE -n
Last(seq) == seq[Len(seq)]

\* the pixel x of the view's right edge and the pixel y of a domain y
RightEdge == position_from_point_x(view.transform, view.transform.bounds.max[1])
RowY(y) == position_from_point_y(view.transform, y)

BuilderStep ==
    \/ builder_highlight
    \/ builder_stroke
    \/ builder_width
    \/ builder_color
    \/ builder_style
    \/ builder_name
    \/ builder_anchor
    \/ builder_fill_color

\* C1, as stated: once highlighted() returns true it returns true after every
\* exposed operation, the builder setter highlight(bool) included.
C1_NeverCleared ==
    [][PlotItem_highlighted(item) => PlotItem_highlighted(item')]_vars

\* C1, amended: the trait mutator highlight() sets the flag and changes nothing
\* else (so calling it again changes nothing), and a step that clears the flag
\* is a call of the builder setter highlight(false): it changes no other field.
C1_ClearedOnlyByBuilderHighlight ==
    [][/\ highlight =>
            /\ PlotItem_highlighted(item')
            /\ item' = [item EXCEPT !.highlight = TRUE]
       /\ (PlotItem_highlighted(item) /\ ~PlotItem_highlighted(item')) =>
            /\ builder_highlight
            /\ item' = [item EXCEPT !.highlight = FALSE]]_vars

C1_Witness ==
    /\ PlotItem_highlighted(item)
    /\ PlotItem_name(item) = "ray"
    /\ rendered

\* C2: bounds() of LinkedYHRay, LinkedYText and LinkedYPolygon has
\* min[1] = max[1] = the y given to the constructor and leaves axis 0 at
\* PlotBounds::NOTHING, in every reachable state.
C2_LinkedBoundsOnlyY ==
    item.kind \in Linked =>
        PlotItem_bounds(item) =
            [min |-> <<PlotBounds_NOTHING.min[1], Fin(given.y)>>,
             max |-> <<PlotBounds_NOTHING.max[1], Fin(given.y)>>]

C2_Witness ==
    /\ item.kind \in Linked
    /\ rendered
    /\ item.highlight
    /\ item.name = "ray"
    /\ PlotItem_bounds(item).max[2] = Fin(given.y)

\* C3: every operation completes without failure on every value the
\* constructors and setters produce; LinkedYPolygon's shapes completes for a
\* series of length 0.
C3_NoOperationPanics == ~panicked

\* C4: initialize leaves every field unchanged, shapes leaves the item unchanged
\* and only appends to the shape list, and a step that changes the item is the
\* trait mutator highlight() or a builder setter.
C4_InitializeAndShapesKeepItem ==
    [][/\ initialize => UNCHANGED vars
       /\ shapes =>
            /\ item' = item
            /\ Len(out') > Len(out)
            /\ SubSeq(out', 1, Len(out)) = out
       /\ item' # item => (highlight \/ BuilderStep)]_vars

C4_Witness ==
    /\ rendered
    /\ Len(out) >= 3
    /\ out[1] = ForeignShape
    /\ out[2] # ForeignShape

\* C5: for a non-empty series, shapes appends the convex polygon of the points
\* (X + s[i].x, Y + s[i].y) in series order, unrounded and without a stroke,
\* and then the styled outline of those points followed by the first point
\* again, with the item's stroke, style and highlight flag.  The triangle
\* scenario at X = 200, Y = 80 gives (200,80), (210,80), (205,70), closed at
\* (200,80).
C5_PolygonFillAndClosedOutline ==
    [][(shapes /\ item.kind = "LinkedYPolygon" /\ given.series # <<>>) =>
          LET k == Len(out)
              s == given.series
              pts == [i \in 1..Len(s) |->
                         <<RightEdge + s[i][1], RowY(given.y) + s[i][2]>>]
          IN  /\ Len(out') = k + 2
              /\ ~panicked'
              /\ out'[k + 1].shape = "convex_polygon"
              /\ out'[k + 1].points = pts
              /\ out'[k + 1].stroke = Stroke_NONE
              /\ out'[k + 2] =
                     [shape |-> "styled_line", points |-> pts \o <<pts[1]>>,
                      stroke |-> item.stroke, style |-> item.style,
                      highlight |-> item.highlight]
              /\ (s = Triangle /\ RightEdge = Px(200) /\ RowY(given.y) = Px(80)) =>
                     /\ out'[k + 1].points =
                            <<<<Px(200), Px(80)>>, <<Px(210), Px(80)>>,
                              <<Px(205), Px(70)>>>>
                     /\ Last(out'[k + 2].points) = <<Px(200), Px(80)>>]_vars

C5_Witness ==
    /\ rendered
    /\ item.kind = "LinkedYPolygon"
    /\ given = [series |-> Triangle, y |-> 5]
    /\ view = ViewA
    /\ Len(out) >= 2
    /\ out[Len(out) - 1].points =
           <<<<Px(200), Px(80)>>, <<Px(210), Px(80)>>, <<Px(205), Px(70)>>>>
    /\ Len(Last(out).points) = 4

\* the two points LinkedYHRay's shapes gave the line-styling routine
C6_Start == Last(out).points[1]
C6_End == Last(out).points[2]

\* C6, as stated: start.x is end.x minus the offset to within 0.5 px, and
\* start.y = end.y.
C6_OffsetWithinHalfPixel ==
    (rendered /\ item.kind = "LinkedYHRay") =>
        /\ 2 * Abs(C6_Start[1] - (C6_End[1] - given.offset)) <= Sub
        /\ C6_Start[2] = C6_End[2]

\* C6, amended: each point lies on the pixel grid within 0.5 px of its
\* unrounded place (right edge minus offset, right edge), so start.x is end.x
\* minus the offset to within 1 px; start.y = end.y.
C6_OffsetWithinOnePixel ==
    (rendered /\ item.kind = "LinkedYHRay") =>
        /\ Last(out).shape = "styled_line"
        /\ Len(Last(out).points) = 2
        /\ C6_Start[1] % Sub = 0
        /\ C6_End[1] % Sub = 0
        /\ 2 * Abs(C6_Start[1] - (RightEdge - given.offset)) <= Sub
        /\ 2 * Abs(C6_End[1] - RightEdge) <= Sub
        /\ Abs(C6_Start[1] - (C6_End[1] - given.offset)) <= Sub
        /\ C6_Start[2] = C6_End[2]

C6_Witness ==
    /\ rendered
    /\ item.kind = "LinkedYHRay"
    /\ 2 * Abs(C6_Start[1] - (C6_End[1] - given.offset)) > Sub
    /\ C6_Start[2] = C6_End[2]

\* C7: HRay's shapes gives the line-styling routine two points, the
\* pixel-rounded transforms of (px, py) and of (R, py), which have the same
\* screen y.  HRay::new((2, 3)) in a view with R = 10 gives the transforms of
\* (2, 3) and (10, 3).
C7_RayToRightEdge ==
    (rendered /\ item.kind = "HRay") =>
        LET line == Last(out)
            tf == view.transform
            R == tf.bounds.max[1]
            P == given.point
        IN  /\ line.shape = "styled_line"
            /\ Len(line.points) = 2
            /\ line.points[1] = round_pos_to_pixels(position_from_point(tf, P))
            /\ line.points[2] =
                   round_pos_to_pixels(position_from_point(tf, <<R, P[2]>>))
            /\ line.points[1][2] = line.points[2][2]
            /\ (P = <<2, 3>> /\ view = ViewA) =>
                   line.points = <<<<Px(40), Px(112)>>, <<Px(200), Px(112)>>>>

C7_Witness ==
    /\ rendered
    /\ item.kind = "HRay"
    /\ given.point = <<2, 3>>
    /\ view.transform.bounds.max[1] = 10
    /\ Last(out).points = <<<<Px(40), Px(112)>>, <<Px(200), Px(112)>>>>

\* C8: the polygon is filled with stroke.color.linear_multiply(DEFAULT_FILL_ALPHA)
\* of the stroke current at the render when no fill colour was set, and with
\* exactly c once fill_color(c) was called; only fill_color changes the
\* configured fill colour, so a stroke call before or after it does not.
C8_FillColourDefaultAndOverride ==
    [][item.kind = "LinkedYPolygon" =>
          /\ shapes =>
               out'[Len(out) + 1].fill =
                   IF item.fill_color = None
                   THEN linear_multiply(item.stroke.color, DEFAULT_FILL_ALPHA)
                   ELSE item.fill_color[1]
          /\ item'.fill_color # item.fill_color =>
               /\ builder_fill_color
               /\ \E c \in Colors : item' = [item EXCEPT !.fill_color = <<c>>]
          /\ (builder_stroke \/ builder_width) =>
               item'.fill_color = item.fill_color]_vars

C8_Witness ==
    /\ rendered
    /\ item.kind = "LinkedYPolygon"
    /\ Len(out) >= 2
    /\ out[Len(out) - 1].shape = "convex_polygon"
    /\ out[Len(out) - 1].fill = RED
    /\ Last(out).stroke.color = TRANSPARENT

\* C9: the text is drawn in a rectangle of the text's size placed on the anchor
\* point A = (right edge - offset, pixel y of y): per axis, Min puts the
\* rectangle's min on A, Max its max, Center its centre; the default
\* CENTER_CENTER centres it on A in both axes.
C9_TextRectangleOnAnchor ==
    [][(shapes /\ item.kind = "LinkedYText") =>
          LET k == Len(out)
              A == <<RightEdge - given.offset, RowY(given.y)>>
              size == view.ui.small_text_size
              rmin == out'[k + 1].pos
              rmax == <<rmin[1] + size[1], rmin[2] + size[2]>>
          IN  /\ out'[k + 1].shape = "text"
              /\ out'[k + 1].galley.size = size
              /\ \A ax \in {1, 2} :
                   /\ item.anchor[ax] = "Min" => rmin[ax] = A[ax]
                   /\ item.anchor[ax] = "Max" => rmax[ax] = A[ax]
                   /\ item.anchor[ax] = "Center" => rmin[ax] + rmax[ax] = 2 * A[ax]
              /\ item.anchor = CENTER_CENTER =>
                   \A ax \in {1, 2} : 2 * rmin[ax] = 2 * A[ax] - size[ax]
              /\ item.highlight =>
                   \A ax \in {1, 2} :
                       out'[k + 2].rect.max[ax] - out'[k + 2].rect.min[ax] =
                           size[ax] + Px(4)]_vars

C9_Witness ==
    /\ rendered
    /\ item.kind = "LinkedYText"
    /\ out # <<>>
    /\ \E i \in 1..Len(out) :
         /\ out[i].shape = "text"
         /\ out[i].pos[1] + out[i].galley.size[1] = RightEdge - given.offset
         /\ 2 * out[i].pos[2] + out[i].galley.size[2] = 2 * RowY(given.y)

\* C10: the text is drawn in the ui's text colour of this render when the
\* configured colour is TRANSPARENT and in the configured colour otherwise; the
\* stored colour is unchanged; a highlighted item appends, after the text, the
\* outline of the text rectangle expanded by 2 px in the same resolved colour,
\* and an item that is not highlighted appends exactly one shape.
C10_TextColourResolvedAtRender ==
    [][(shapes /\ item.kind = "LinkedYText") =>
          LET k == Len(out)
              resolved == IF item.color = TRANSPARENT
                          THEN view.ui.text_color ELSE item.color
              size == view.ui.small_text_size
              rmin == out'[k + 1].pos
          IN  /\ out'[k + 1].shape = "text"
              /\ out'[k + 1].color = resolved
              /\ PlotItem_color(item') = item.color
              /\ ~item.highlight => Len(out') = k + 1
              /\ item.highlight =>
                   /\ Len(out') = k + 2
                   /\ out'[k + 2].shape = "rect_stroke"
                   /\ out'[k + 2].stroke.color = resolved
                   /\ out'[k + 2].rect =
                          [min |-> <<rmin[1] - Px(2), rmin[2] - Px(2)>>,
                           max |-> <<rmin[1] + size[1] + Px(2),
                                     rmin[2] + size[2] + Px(2)>>]]_vars

C10_Witness ==
    /\ rendered
    /\ item.kind = "LinkedYText"
    /\ Len(out) >= 2
    /\ Last(out).shape = "rect_stroke"
    /\ Last(out).stroke.color = view.ui.text_color
    /\ out[Len(out) - 1].color = view.ui.text_color

====
